---- MODULE Spec2Model ----
(***************************************************************************)
(* The Fisher control loop of src/fisher.js, started once by main() of the *)
(* bootstrap script.  The file holds the class twice: version 1 (lines     *)
(* 6-329) and version 2 (lines 338-601), which has no wait after settling, *)
(* a settle window of 500 ms and a getLastMessage that does not poll.      *)
(* Spec is version 1; SpecBoth is either version, with fewer kinds of      *)
(* entries posted; SpecTexts is version 1 with entries of unusual wording; *)
(* SpecSettle is either version followed for long enough, with entries     *)
(* enough, for the settle detector to time out; SpecFaulty is version 1    *)
(* with page calls that fail.  Time is the value of Date.now() in ms,      *)
(* counted from the construction of the loop.  An entry of the timeline is *)
(* named by an id of the table Text; the text functions work on the        *)
(* characters of the text.                                                 *)
(***************************************************************************)
EXTENDS Integers, Sequences, FiniteSets, TLC

\* ------------------------------------------------------------------ bounds
\* A run is observed up to an instant and a number of entries of the
\* timeline (the variable horizon).  Spec and SpecBoth: no step takes
\* Date.now() beyond MaxTime and the timeline gets at most MaxMessages entries.
MaxTime == 3400
MaxMessages == 3
\* SpecTexts: up to MaxTextsTime, so that getLastMessage's 3 s run out, and
\* MaxTexts entries.
MaxTextsTime == 3700
MaxTexts == 2
\* SpecSettle: up to MaxSettleTime, so that waitForMessagesSettled's 5 s run
\* out and the cycle goes on, and MaxArrivals entries, which arriving every
\* 300 ms keep the count growing for that long.
MaxSettleTime == 5300
MaxArrivals == 16

\* ------------------------------------------------------- program constants
settleMs == 300
settleMsV2 == 500
timeoutMs == 5000
pollMs == 100
renderMs == 300
verifyBufferMs == 1000
lastMessageTimeoutMs == 3000
lastMessagePollMs == 100
minResponseLength == 10
baitAmount == 50

\* config.cooldown * 1000 (README example 2.7) and config.baitType
Cooldowns == {2700}
BaitTypes == {"worms"}
\* the two copies of the class
Versions == {1, 2}

\* -------------------------------------------------------------------- text
Text ==
  [ empty   |-> << >>,
    caught  |-> <<"Y","o","u"," ","c","a","u","g","h","t"," ","a"," ","f","i","s","h">>,
    \* "You caught a fish"
    ranout  |-> <<"Y","o","u"," ","r","a","n"," ","o","u","t"," ","o","f"," ","w","o","r","m","s">>,
    \* "You ran out of worms"
    sold    |-> <<"Y","o","u"," ","s","o","l","d"," ","a","l","l"," ","y","o","u","r"," ","i","t","e","m","s">>,
    \* "You sold all your items"
    bought  |-> <<"Y","o","u"," ","b","o","u","g","h","t"," ","5","0"," ","w","o","r","m","s">>,
    \* "You bought 50 worms"
    baitp   |-> <<"B","a","i","t"," ","p","u","r","c","h","a","s","e"," ","c","o","m","p","l","e","t","e">>,
    \* "Bait purchase complete"
    textcap |-> <<"A","n","t","i","-","b","o","t"," ","v","e","r","i","f","i","c","a","t","i","o","n"," ","-"," ","C","o","d","e",":"," ","Q","7","W","2">>,
    \* "Anti-bot verification - Code: Q7W2"
    imgcap  |-> <<"A","n","t","i","-","b","o","t"," ","v","e","r","i","f","i","c","a","t","i","o","n"," ","r","e","q","u","i","r","e","d">>,
    \* "Anti-bot verification required"
    shout   |-> <<"Y","O","U"," ","R","A","N"," ","O","U","T"," ","O","F"," ","W","O","R","M","S">>,
    \* "YOU RAN OUT OF WORMS"
    soldout |-> <<"Y","o","u"," ","s","o","l","d"," ","3"," ","f","i","s","h","."," ","Y","o","u"," ","r","a","n"," ","o","u","t"," ","o","f"," ","w","o","r","m","s">>,
    \* "You sold 3 fish. You ran out of worms"
    baitout |-> <<"B","a","i","t"," ","p","u","r","c","h","a","s","e"," ","f","a","i","l","e","d",":"," ","y","o","u"," ","r","a","n"," ","o","u","t"," ","o","f"," ","c","o","i","n","s">>,
    \* "Bait purchase failed: you ran out of coins"
    bothconf|-> <<"Y","o","u"," ","b","o","u","g","h","t"," ","5","0"," ","w","o","r","m","s"," ","a","f","t","e","r"," ","y","o","u"," ","s","o","l","d"," ","3"," ","f","i","s","h">>,
    \* "You bought 50 worms after you sold 3 fish"
    codecap |-> <<"A","n","t","i","-","b","o","t"," ","c","h","e","c","k","."," ","C","o","d","e",":","A","B","1","2"," ","n","o","w">>,
    \* "Anti-bot check. Code:AB12 now"
    nocode  |-> <<"A","n","t","i","-","b","o","t"," ","c","h","e","c","k","."," ","C","o","d","e",":">>,
    \* "Anti-bot check. Code:"
    other   |-> <<"h","e","l","l","o">>
    \* "hello"
  ]

TextIds == DOMAIN Text

\* The entries the remote side posts in this model.
Alphabet == {"caught", "ranout", "sold", "bought", "baitp", "textcap", "imgcap"}

\* The entries it posts where both copies of the class are checked.
AlphabetBoth == {"caught", "ranout", "sold", "textcap"}

\* The entries it posts where the wording of the entries is what is checked:
\* phrases in upper case, several phrases in one entry, a label without a
\* code, a text without any phrase.
AlphabetTexts == {"shout", "soldout", "baitout", "bothconf", "codecap", "nocode", "other"}

\* The entries it posts where the count of the entries is what is checked.
AlphabetSettle == {"caught", "textcap"}

UpperCase == <<"A","B","C","D","E","F","G","H","I","J","K","L","M","N","O","P","Q","R","S","T","U","V","W","X","Y","Z">>
LowerCase == <<"a","b","c","d","e","f","g","h","i","j","k","l","m","n","o","p","q","r","s","t","u","v","w","x","y","z">>

\* the phrases of the source, character by character
PhraseRanOut == <<"y","o","u"," ","r","a","n"," ","o","u","t"," ","o","f">>
PhraseSold == <<"y","o","u"," ","s","o","l","d">>
PhraseBought == <<"y","o","u"," ","b","o","u","g","h","t">>
PhraseBaitPurchase == <<"b","a","i","t"," ","p","u","r","c","h","a","s","e">>
PhraseAntiBot == <<"a","n","t","i","-","b","o","t">>
LabelCode == <<"c","o","d","e",":">>
RespCaught == <<"Y","o","u"," ","c","a","u","g","h","t">>
RespSold == <<"Y","o","u"," ","s","o","l","d">>
RespBought == <<"Y","o","u"," ","b","o","u","g","h","t">>
RespBaitPurchase == <<"B","a","i","t"," ","p","u","r","c","h","a","s","e">>
RespRanOut == <<"Y","o","u"," ","r","a","n"," ","o","u","t"," ","o","f">>
RespAntiBot == <<"A","n","t","i","-","b","o","t">>

Min(S) == CHOOSE x \in S : \A y \in S : x <= y
Max(S) == CHOOSE x \in S : \A y \in S : x >= y

\* String.prototype.toLowerCase
toLowerCase(s) ==
  [i \in 1..Len(s) |->
     IF \E k \in 1..Len(UpperCase) : UpperCase[k] = s[i]
     THEN LowerCase[CHOOSE k \in 1..Len(UpperCase) : UpperCase[k] = s[i]]
     ELSE s[i]]

\* String.prototype.includes
includes(s, sub) ==
  \E i \in 1..(Len(s) - Len(sub) + 1) : SubSeq(s, i, i + Len(sub) - 1) = sub

\* \s of the regular expression, on the characters of the table
isSpace(c) == c = " "

RECURSIVE Join(_)
Join(chars) == IF chars = << >> THEN "" ELSE Head(chars) \o Join(Tail(chars))

\* captchaMsg.match(/Code:\s*(\S+)/i): the label in any case, optional white
\* space, then the longest run of non-space characters, which is captured.
codeMatch(msg) ==
  LET lower == toLowerCase(msg)
      n == Len(msg)
      Code(i) == {j \in (i + 5)..n :
                    /\ ~isSpace(msg[j])
                    /\ \A k \in (i + 5)..(j - 1) : isSpace(msg[k])}
      Starts == {i \in 1..(n - 4) :
                   /\ SubSeq(lower, i, i + 4) = LabelCode
                   /\ Code(i) # {}}
  IN IF Starts = {}
     THEN [matched |-> FALSE, answer |-> ""]
     ELSE LET j == Min(Code(Min(Starts)))
              e == Max({x \in j..n : \A k \in j..x : ~isSpace(msg[k])})
          IN [matched |-> TRUE, answer |-> Join(SubSeq(msg, j, e))]

\* m.toLowerCase().includes('anti-bot')
isCaptchaMsg(msg) == includes(toLowerCase(msg), PhraseAntiBot)

\* determineNextAction with the answer to 'you sold' mistaken
nextActionFor_SoldSells(lastMsg) ==
  LET msg == toLowerCase(lastMsg)
  IN IF includes(msg, PhraseRanOut) \/ includes(msg, PhraseSold) THEN "sell"
     ELSE "fish"

\* determineNextAction asking for 'you sold' before 'you ran out of'
nextActionFor_SoldFirst(lastMsg) ==
  LET msg == toLowerCase(lastMsg)
  IN IF includes(msg, PhraseSold) THEN "buy"
     ELSE IF includes(msg, PhraseRanOut) THEN "sell"
     ELSE "fish"

\* the branches of determineNextAction on the text of the last message
nextActionFor(lastMsg) ==
  LET msg == toLowerCase(lastMsg)
  IN IF includes(msg, PhraseRanOut) THEN "sell"
     ELSE IF includes(msg, PhraseSold) THEN "buy"
     ELSE IF includes(msg, PhraseBought) \/ includes(msg, PhraseBaitPurchase) THEN "fish"
     ELSE "fish"

\* getLastMessage's test of one reading of the last message
isVirtualFisherResponse(msg) ==
  \/ includes(msg, RespCaught)
  \/ includes(msg, RespSold)
  \/ includes(msg, RespBought)
  \/ includes(msg, RespBaitPurchase)
  \/ includes(msg, RespRanOut)
  \/ includes(msg, RespAntiBot)

acceptsResponse(msg) == isVirtualFisherResponse(msg) /\ Len(msg) > minResponseLength

\* The text functions, tabulated once over the texts of the model.
HasMarker == [t \in TextIds |-> isCaptchaMsg(Text[t])]
CodeOf == [t \in TextIds |-> codeMatch(Text[t])]
ActionOf == [t \in TextIds |-> nextActionFor(Text[t])]
Accepted == [t \in TextIds |-> acceptsResponse(Text[t])]

\* ------------------------------------------------------------------- state
VARIABLES
  running,               \* this.running
  lastFishResponseTime,  \* this.lastFishResponseTime, 0 while unset
  config,                \* this.config: cooldown in ms, baitType
  horizon,               \* the span of the run that is observed: its last
                         \* instant and the most entries the timeline gets
  nextAction,            \* start's local nextAction
  pc,                    \* where start() is
  now,                   \* Date.now()
  total,                 \* the number of entries of the timeline
  recent,                \* its last two entries, oldest first, as ids of Text
  sent,                  \* the commands typed into the textbox, in order
  error,                 \* the error start() threw, "none" while it has not
  remaining,             \* waitForCooldown's remaining, as handed to wait
  startTime,             \* waitForMessagesSettled's locals
  lastCount,
  lastChangeTime,
  pollStart              \* getLastMessage's startTime

vars == <<running, lastFishResponseTime, config, horizon, nextAction, pc, now, total, recent,
          sent, error, remaining, startTime, lastCount, lastChangeTime, pollStart>>

Last(s) == s[Len(s)]

\* getMessageCount
getMessageCount == total

\* The timeline is kept as its length and its last Window entries: the
\* program reads it through count() and through nth(i) for the last one or
\* two indices only.  entryAt(i) is the entry at index i (from 0).
Window == 2
entryAt(i) == recent[i - (total - Len(recent)) + 1]

\* getLastMessages(count), for count <= Window: the ids of the last count
\* entries, oldest first
getLastMessages(count) ==
  LET start == IF total - count > 0 THEN total - count ELSE 0
  IN [k \in 1..(total - start) |-> entryAt(start + k - 1)]

\* messages[0] || '' of getLastMessage
lastMessage ==
  LET last == getLastMessages(1)
  IN IF last = << >> THEN "empty" ELSE last[1]

\* detectCaptcha taking the last entry with the marker, not the first
detectCaptcha_LastMatch(ids) ==
  LET hits == {i \in 1..Len(ids) : HasMarker[ids[i]]}
  IN IF hits = {}
     THEN [type |-> "none", answer |-> ""]
     ELSE LET captchaMsg == ids[Max(hits)]
          IN IF CodeOf[captchaMsg].matched
             THEN [type |-> "text", answer |-> CodeOf[captchaMsg].answer]
             ELSE [type |-> "image", answer |-> ""]

\* detectCaptcha looking at the newest of the entries it read only
detectCaptcha_NewestOnly(ids) ==
  IF ids = << >> \/ ~HasMarker[Last(ids)]
  THEN [type |-> "none", answer |-> ""]
  ELSE IF CodeOf[Last(ids)].matched
  THEN [type |-> "text", answer |-> CodeOf[Last(ids)].answer]
  ELSE [type |-> "image", answer |-> ""]

\* detectCaptcha on the ids it read: the first entry with the marker decides
detectCaptcha(ids) ==
  LET hits == {i \in 1..Len(ids) : HasMarker[ids[i]]}
  IN IF hits = {}
     THEN [type |-> "none", answer |-> ""]
     ELSE LET captchaMsg == ids[Min(hits)]
          IN IF CodeOf[captchaMsg].matched
             THEN [type |-> "text", answer |-> CodeOf[captchaMsg].answer]
             ELSE [type |-> "image", answer |-> ""]

\* executeAction without its 'buy' case
commandFor_NoBuy(action, baitType) ==
  CASE action = "fish" -> [cmd |-> "/fish", params |-> ""]
    [] action = "sell" -> [cmd |-> "/sell", params |-> "all"]
    [] OTHER -> [cmd |-> "", params |-> ""]

\* the command executeAction types for an action; "" for the default branch
commandFor(action, baitType) ==
  CASE action = "fish" -> [cmd |-> "/fish", params |-> ""]
    [] action = "sell" -> [cmd |-> "/sell", params |-> "all"]
    [] action = "buy" -> [cmd |-> "/buy", params |-> baitType \o " " \o ToString(baitAmount)]
    [] OTHER -> [cmd |-> "", params |-> ""]

\* the cooldown awaited before every action
isGated_Always(action) == TRUE

\* start's test before waitForCooldown
isGated(action) == action = "fish"

\* the response time recorded after every action
recordsResponseTime_Always(action) == TRUE

\* start's test before recording the response time
recordsResponseTime(action) == action = "fish"

\* waitForCooldown suspending for the whole cooldown, the elapsed time ignored
cooldownWait_FullCooldown(last, t, cooldownMs) ==
  IF last = 0 THEN 0 ELSE cooldownMs

\* waitForCooldown: the time it suspends for
cooldownWait(last, t, cooldownMs) ==
  IF last = 0 THEN 0
  ELSE LET elapsed == t - last
           rem == cooldownMs - elapsed
       IN IF rem > 0 THEN rem ELSE 0

\* a settle window of one poll
settleWindow_OnePoll(version) == pollMs

\* the default of waitForMessagesSettled's settleMs
settleWindow(version) == IF version = 1 THEN settleMs ELSE settleMsV2

\* the wait between settling and recording the response time
renderWait(version) == IF version = 1 THEN renderMs ELSE 0

\* whether getLastMessage waits for a text that looks like a response
pollsForResponse(version) == version = 1

settleLocals == <<startTime, lastCount, lastChangeTime>>

\* new Fisher(page, config), of one of the given versions of the class
Constructed(versions) ==
  /\ running = FALSE
  /\ lastFishResponseTime = 0
  /\ config \in [cooldown : Cooldowns, baitType : BaitTypes, version : versions]
  /\ nextAction = "fish"
  /\ pc = "idle"
  /\ now = 0
  /\ total = 0
  /\ recent = << >>
  /\ sent = << >>
  /\ error = "none"
  /\ remaining = 0
  /\ startTime = 0
  /\ lastCount = 0
  /\ lastChangeTime = 0
  /\ pollStart = 0

\* the run observed up to the given instant and number of entries
Within(time, messages) == horizon = [time |-> time, messages |-> messages]

Init == Constructed({1}) /\ Within(MaxTime, MaxMessages)
InitBoth == Constructed(Versions) /\ Within(MaxTime, MaxMessages)
InitTexts == Constructed({1}) /\ Within(MaxTextsTime, MaxTexts)
InitSettle == Constructed(Versions) /\ Within(MaxSettleTime, MaxArrivals)

\* main() calls fisher.start() once
Start ==
  /\ pc = "idle"
  /\ running' = TRUE
  /\ nextAction' = "fish"
  /\ pc' = "top"
  /\ UNCHANGED <<lastFishResponseTime, config, horizon, now, total, recent, sent, error,
                 remaining, settleLocals, pollStart>>

\* while (this.running)
LoopTest ==
  /\ pc = "top"
  /\ pc' = IF running THEN "gate" ELSE "done"
  /\ UNCHANGED <<running, lastFishResponseTime, config, horizon, nextAction, now, total, recent,
                 sent, error, remaining, settleLocals, pollStart>>

\* if (nextAction === 'fish') await this.waitForCooldown()
WaitForCooldown ==
  /\ pc = "gate"
  /\ remaining' = IF isGated(nextAction)
                  THEN cooldownWait(lastFishResponseTime, now, config.cooldown)
                  ELSE 0
  /\ now' = now + remaining'
  /\ now' <= horizon.time
  /\ pc' = "exec"
  /\ UNCHANGED <<running, lastFishResponseTime, config, horizon, nextAction, total, recent,
                 sent, error, settleLocals, pollStart>>

\* executeAction typing its command twice
ExecuteAction_SendsTwice ==
  /\ pc = "exec"
  /\ remaining' = 0
  /\ LET c == commandFor(nextAction, config.baitType)
     IN IF c.cmd = ""
        THEN /\ error' = "unknown action"
             /\ pc' = "failed"
             /\ UNCHANGED <<sent, settleLocals>>
        ELSE /\ sent' = sent \o << [cmd |-> c.cmd, params |-> c.params, settled |-> TRUE],
                                   [cmd |-> c.cmd, params |-> c.params, settled |-> FALSE] >>
             /\ startTime' = now
             /\ lastCount' = getMessageCount
             /\ lastChangeTime' = now
             /\ pc' = "settle"
             /\ error' = error
  /\ UNCHANGED <<running, lastFishResponseTime, config, horizon, nextAction, now, total, recent,
                 pollStart>>

\* msgCountBefore = getMessageCount(); executeAction(nextAction); the locals
\* of waitForMessagesSettled(msgCountBefore)
ExecuteAction ==
  /\ pc = "exec"
  /\ remaining' = 0
  /\ LET c == commandFor(nextAction, config.baitType)
     IN IF c.cmd = ""
        THEN /\ error' = "unknown action"
             /\ pc' = "failed"
             /\ UNCHANGED <<sent, settleLocals>>
        ELSE /\ sent' = Append(sent, [cmd |-> c.cmd, params |-> c.params, settled |-> FALSE])
             /\ startTime' = now
             /\ lastCount' = getMessageCount
             /\ lastChangeTime' = now
             /\ pc' = "settle"
             /\ error' = error
  /\ UNCHANGED <<running, lastFishResponseTime, config, horizon, nextAction, now, total, recent,
                 pollStart>>

\* the index in sent of the cycle's action command
ActionIndex == Max({i \in 1..Len(sent) : sent[i].cmd # "/verify"})

\* waitForMessagesSettled called without await: the loop goes on at once
WaitForMessagesSettled_NotAwaited ==
  /\ pc = "settle"
  /\ pc' = "render"
  /\ startTime' = 0
  /\ lastCount' = 0
  /\ lastChangeTime' = 0
  /\ UNCHANGED <<running, lastFishResponseTime, config, horizon, nextAction, now, total, recent,
                 sent, error, remaining, pollStart>>

\* waitForMessagesSettled without the timeout: while (true)
WaitForMessagesSettled_NoTimeout ==
  /\ pc = "settle"
  /\ now' = now + pollMs
  /\ now' <= horizon.time
  /\ LET currentCount == getMessageCount
         grew == currentCount > lastCount
         change == IF grew THEN now' ELSE lastChangeTime
     IN /\ IF now' - change >= settleWindow(config.version)
           THEN /\ pc' = "render"
                /\ sent' = [sent EXCEPT ![ActionIndex].settled = TRUE]
                /\ startTime' = 0
                /\ lastCount' = 0
                /\ lastChangeTime' = 0
           ELSE /\ pc' = "settle"
                /\ sent' = sent
                /\ startTime' = startTime
                /\ lastCount' = IF grew THEN currentCount ELSE lastCount
                /\ lastChangeTime' = change
  /\ UNCHANGED <<running, lastFishResponseTime, config, horizon, nextAction, total, recent,
                 error, remaining, pollStart>>

\* one turn of waitForMessagesSettled's loop, or its exit on the timeout
WaitForMessagesSettled ==
  /\ pc = "settle"
  /\ IF now - startTime < timeoutMs
     THEN /\ now' = now + pollMs
          /\ now' <= horizon.time
          /\ LET currentCount == getMessageCount
                 grew == currentCount > lastCount
                 change == IF grew THEN now' ELSE lastChangeTime
             IN /\ IF now' - change >= settleWindow(config.version)
                   THEN /\ pc' = "render"
                        /\ sent' = [sent EXCEPT ![ActionIndex].settled = TRUE]
                        /\ startTime' = 0
                        /\ lastCount' = 0
                        /\ lastChangeTime' = 0
                   ELSE /\ pc' = "settle"
                        /\ sent' = sent
                        /\ startTime' = startTime
                        /\ lastCount' = IF grew THEN currentCount ELSE lastCount
                        /\ lastChangeTime' = change
     ELSE /\ pc' = "render"
          /\ sent' = [sent EXCEPT ![ActionIndex].settled = TRUE]
          /\ startTime' = 0
          /\ lastCount' = 0
          /\ lastChangeTime' = 0
          /\ now' = now
  /\ UNCHANGED <<running, lastFishResponseTime, config, horizon, nextAction, total, recent,
                 error, remaining, pollStart>>

\* await this.wait(0.3) (version 1); if (nextAction === 'fish') lastFishResponseTime = Date.now()
RecordResponseTime ==
  /\ pc = "render"
  /\ now' = now + renderWait(config.version)
  /\ now' <= horizon.time
  /\ lastFishResponseTime' = IF recordsResponseTime(nextAction)
                             THEN now' ELSE lastFishResponseTime
  /\ pc' = "detect"
  /\ UNCHANGED <<running, config, horizon, nextAction, total, recent, sent, error, remaining,
                 settleLocals, pollStart>>

\* the throw with this.running cleared on the way out
ThrowImageCaptcha_ClearsRunning ==
  /\ error' = "image captcha"
  /\ pc' = "failed"
  /\ running' = FALSE

\* handleCaptcha's throw, logged and thrown again by start's catch
ThrowImageCaptcha ==
  /\ error' = "image captcha"
  /\ pc' = "failed"
  /\ running' = running

\* a loop that remembers the codes it has answered and answers each once
HandleCaptcha_AnswersOnce ==
  /\ pc = "detect"
  /\ LET captcha == detectCaptcha(getLastMessages(2))
         answered == \E i \in 1..Len(sent) :
                       sent[i].cmd = "/verify" /\ sent[i].params = captcha.answer
     IN IF captcha.type = "none" \/ (captcha.type = "text" /\ answered)
        THEN /\ pc' = "lastmsg"
             /\ pollStart' = now
             /\ UNCHANGED <<running, sent, error>>
        ELSE IF captcha.type = "text"
        THEN /\ sent' = Append(sent, [cmd |-> "/verify", params |-> captcha.answer,
                                      settled |-> FALSE])
             /\ pc' = "buffer"
             /\ UNCHANGED <<running, error, pollStart>>
        ELSE /\ ThrowImageCaptcha
             /\ UNCHANGED <<sent, pollStart>>
  /\ UNCHANGED <<lastFishResponseTime, config, horizon, nextAction, now, total, recent,
                 remaining, settleLocals>>

\* detectCaptcha and handleCaptcha up to its wait or its throw
HandleCaptcha ==
  /\ pc = "detect"
  /\ LET captcha == detectCaptcha(getLastMessages(2))
     IN IF captcha.type = "none"
        THEN /\ pc' = "lastmsg"
             /\ pollStart' = now
             /\ UNCHANGED <<running, sent, error>>
        ELSE IF captcha.type = "text"
        THEN /\ sent' = Append(sent, [cmd |-> "/verify", params |-> captcha.answer,
                                      settled |-> FALSE])
             /\ pc' = "buffer"
             /\ UNCHANGED <<running, error, pollStart>>
        ELSE /\ ThrowImageCaptcha
             /\ UNCHANGED <<sent, pollStart>>
  /\ UNCHANGED <<lastFishResponseTime, config, horizon, nextAction, now, total, recent,
                 remaining, settleLocals>>

\* await this.wait(1) of handleCaptcha
VerifyBuffer ==
  /\ pc = "buffer"
  /\ now' = now + verifyBufferMs
  /\ now' <= horizon.time
  /\ pc' = "lastmsg"
  /\ pollStart' = now'
  /\ UNCHANGED <<running, lastFishResponseTime, config, horizon, nextAction, total, recent, sent,
                 error, remaining, settleLocals>>

\* getLastMessage without the timeout: it waits until the last entry looks
\* like a response
DetermineNextAction_WaitsForResponse ==
  /\ pc = "lastmsg"
  /\ IF pollsForResponse(config.version) /\ ~Accepted[lastMessage]
     THEN /\ now' = now + lastMessagePollMs
          /\ now' <= horizon.time
          /\ UNCHANGED <<pc, nextAction, pollStart>>
     ELSE /\ nextAction' = ActionOf[lastMessage]
          /\ pc' = "top"
          /\ pollStart' = 0
          /\ now' = now
  /\ UNCHANGED <<running, lastFishResponseTime, config, horizon, total, recent, sent, error,
                 remaining, settleLocals>>

\* one turn of getLastMessage's loop, or its exit on the timeout, and the
\* assignment of determineNextAction's result
DetermineNextAction ==
  /\ pc = "lastmsg"
  /\ IF /\ pollsForResponse(config.version)
        /\ now - pollStart < lastMessageTimeoutMs
        /\ ~Accepted[lastMessage]
     THEN /\ now' = now + lastMessagePollMs
          /\ now' <= horizon.time
          /\ UNCHANGED <<pc, nextAction, pollStart>>
     ELSE /\ nextAction' = ActionOf[lastMessage]
          /\ pc' = "top"
          /\ pollStart' = 0
          /\ now' = now
  /\ UNCHANGED <<running, lastFishResponseTime, config, horizon, total, recent, sent, error,
                 remaining, settleLocals>>

\* stop() ending the loop where it stands
Stop_Aborts ==
  /\ pc \notin {"idle", "done", "failed"}
  /\ running' = FALSE
  /\ pc' = "done"
  /\ UNCHANGED <<lastFishResponseTime, config, horizon, nextAction, now, total, recent, sent,
                 error, remaining, settleLocals, pollStart>>

\* stop(), called by the owner of the loop at any time after start()
Stop ==
  /\ pc # "idle"
  /\ running' = FALSE
  /\ UNCHANGED <<lastFishResponseTime, config, horizon, nextAction, pc, now, total, recent, sent,
                 error, remaining, settleLocals, pollStart>>

\* the steps of start() that call the page for a count, a text or a send
TransportSteps == {"exec", "settle", "detect", "lastmsg"}

\* a failed call caught by start() and the loop going on with the next cycle
TransportFails_CaughtAndContinued ==
  /\ pc \in TransportSteps
  /\ error' = "transport"
  /\ pc' = "top"
  /\ UNCHANGED <<running, lastFishResponseTime, config, horizon, nextAction, now, total,
                 recent, sent, remaining, settleLocals, pollStart>>

\* a call of the page (count, textbox) rejects: the error leaves start()
\* through its catch, which logs it and throws it again.  A send that fails
\* may have typed its command already (fill, then press).
TransportFails ==
  /\ pc \in TransportSteps
  /\ error' = "transport"
  /\ pc' = "failed"
  /\ \/ sent' = sent
     \/ /\ pc = "exec"
        /\ commandFor(nextAction, config.baitType).cmd # ""
        /\ sent' = Append(sent, [cmd |-> commandFor(nextAction, config.baitType).cmd,
                                 params |-> commandFor(nextAction, config.baitType).params,
                                 settled |-> FALSE])
     \/ /\ pc = "detect"
        /\ detectCaptcha(getLastMessages(2)).type = "text"
        /\ sent' = Append(sent, [cmd |-> "/verify",
                                 params |-> detectCaptcha(getLastMessages(2)).answer,
                                 settled |-> FALSE])
  /\ remaining' = 0
  /\ startTime' = 0
  /\ lastCount' = 0
  /\ lastChangeTime' = 0
  /\ pollStart' = 0
  /\ UNCHANGED <<running, lastFishResponseTime, config, horizon, nextAction, now, total,
                 recent>>

\* the remote side posts an entry, one of the given ones
Post(entries) ==
  /\ total < horizon.messages
  /\ total' = total + 1
  /\ \E t \in entries :
       recent' = IF Len(recent) < Window THEN Append(recent, t)
                 ELSE Append(Tail(recent), t)
  /\ UNCHANGED <<running, lastFishResponseTime, config, horizon, nextAction, pc, now, sent,
                 error, remaining, settleLocals, pollStart>>

BotReply == Post(Alphabet)
BotReplyBoth == Post(AlphabetBoth)
BotReplyTexts == Post(AlphabetTexts)
BotReplySettle == Post(AlphabetSettle)

\* the steps of start() and the calls of stop()
Program ==
  \/ Start
  \/ LoopTest
  \/ WaitForCooldown
  \/ ExecuteAction
  \/ WaitForMessagesSettled
  \/ RecordResponseTime
  \/ HandleCaptcha
  \/ VerifyBuffer
  \/ DetermineNextAction
  \/ Stop

Next == Program \/ BotReply
NextBoth == Program \/ BotReplyBoth
NextTexts == Program \/ BotReplyTexts
NextSettle == Program \/ BotReplySettle
NextFaulty == Program \/ TransportFails \/ BotReplyBoth

Spec == Init /\ [][Next]_vars
SpecBoth == InitBoth /\ [][NextBoth]_vars
SpecTexts == InitTexts /\ [][NextTexts]_vars
SpecSettle == InitSettle /\ [][NextSettle]_vars
SpecFaulty == Init /\ [][NextFaulty]_vars

\* ------------------------------------------------------------------ claims
\* What the specification expects of each text, written out by hand.
ExpectedChallenge ==
  [ empty |-> "none", caught |-> "none", ranout |-> "none", sold |-> "none",
    bought |-> "none", baitp |-> "none", textcap |-> "text", imgcap |-> "image",
    shout |-> "none", soldout |-> "none", baitout |-> "none", bothconf |-> "none",
    codecap |-> "text", nocode |-> "image", other |-> "none" ]
ExpectedCode ==
  [t \in TextIds |-> CASE t = "textcap" -> "Q7W2" [] t = "codecap" -> "AB12" [] OTHER -> ""]
ExpectedNext ==
  [ empty |-> "fish", caught |-> "fish", ranout |-> "sell", sold |-> "buy",
    bought |-> "fish", baitp |-> "fish", textcap |-> "fish", imgcap |-> "fish",
    shout |-> "sell", soldout |-> "sell", baitout |-> "sell", bothconf |-> "buy",
    codecap |-> "fish", nocode |-> "fish", other |-> "fish" ]
ExpectedCommand(action) ==
  CASE action = "fish" -> [cmd |-> "/fish", params |-> "", settled |-> FALSE]
    [] action = "sell" -> [cmd |-> "/sell", params |-> "all", settled |-> FALSE]
    [] action = "buy" -> [cmd |-> "/buy", params |-> config.baitType \o " 50",
                          settled |-> FALSE]

Commands == [i \in 1..Len(sent) |-> sent[i].cmd]
MidCycle == {"gate", "exec", "settle", "render", "detect", "buffer", "lastmsg"}

\* the entries of the window read by challenge detection, as a set of ids
WindowIds == {getLastMessages(2)[i] : i \in 1..Len(getLastMessages(2))}
\* the first (oldest) entry of the window that is a challenge, "empty" if none
FirstChallenge ==
  LET w == getLastMessages(2)
      c == {i \in 1..Len(w) : ExpectedChallenge[w[i]] # "none"}
  IN IF c = {} THEN "empty" ELSE w[Min(c)]

\* C1: when the 2 most recent entries read after a cycle settled contain an
\* image challenge (the marker, no code), the loop ends with a fatal failure
\* and issues no command at that step; once failed it stays failed and issues
\* no further command.
C1_ImageChallengeIsFatal ==
  [][ /\ (pc = "detect" /\ pc' # "detect"
            /\ \E t \in WindowIds : ExpectedChallenge[t] = "image")
         => (pc' = "failed" /\ sent' = sent)
      /\ pc = "failed" => (pc' = "failed" /\ sent' = sent) ]_vars

\* C2 as claimed: after the loop has failed on an image challenge, running
\* is false.
C2_RunningFalseAfterImageChallenge ==
  (pc = "failed" /\ error = "image captcha") => ~running

\* C2 as amended: running goes from true to false only by stop(), a step
\* that changes nothing else; the step that fails the loop on an image
\* challenge leaves running as it was.
C2_RunningClearedOnlyByStop ==
  [][ /\ (running /\ ~running')
         => UNCHANGED <<lastFishResponseTime, config, horizon, nextAction, pc, now, total,
                        recent, sent, error, remaining, settleLocals, pollStart>>
      /\ (pc # "failed" /\ pc' = "failed") => running' = running ]_vars

C2_Witness == pc = "failed" /\ error = "image captcha" /\ running

\* C3: at the end of a cycle the next action is the one the latest entry's
\* text calls for (ran out -> sell, sold -> buy, bought or bait purchase ->
\* fish, anything else -> fish), and the command a cycle issues is the one of
\* its action: /fish, /sell all, /buy <bait> 50.
C3_NextActionFromLatestText ==
  [][ /\ (pc = "lastmsg" /\ pc' = "top") => nextAction' = ExpectedNext[lastMessage]
      /\ (pc = "exec" /\ pc' = "settle")
         => sent' = Append(sent, ExpectedCommand(nextAction)) ]_vars

\* the responses ran out, sold, bought have been answered by /sell all,
\* /buy worms 50, /fish
C3_Witness ==
  /\ total = 3
  /\ recent = <<"sold", "bought">>
  /\ Len(sent) = 4
  /\ [i \in 1..4 |-> [cmd |-> sent[i].cmd, params |-> sent[i].params]]
       = << [cmd |-> "/fish", params |-> ""], [cmd |-> "/sell", params |-> "all"],
            [cmd |-> "/buy", params |-> "worms 50"], [cmd |-> "/fish", params |-> ""] >>

\* C4 as claimed: of two consecutive commands, /verify included, the later
\* one is issued only after the settle detector has returned for the earlier.
C4_EveryEarlierCommandSettled ==
  \A i \in 1..(Len(sent) - 1) : sent[i].settled

\* C4 as amended: every action command (/fish, /sell, /buy) that is followed
\* by another command has had the settle detector return for it, so at most
\* one action command is unsettled; /verify follows a settled action command
\* and is itself never awaited by the settle detector.
C4_ActionCommandsSettleFirst ==
  /\ \A i \in 1..(Len(sent) - 1) : sent[i].cmd # "/verify" => sent[i].settled
  /\ \A i \in 1..Len(sent) :
       sent[i].cmd = "/verify"
       => /\ ~sent[i].settled
          /\ i > 1
          /\ sent[i - 1].cmd # "/verify"
          /\ sent[i - 1].settled

\* a command has been issued after a /verify that no settle detector awaited
C4_Witness ==
  \E i \in 1..(Len(sent) - 1) :
    sent[i].cmd = "/verify" /\ ~sent[i].settled /\ sent[i + 1].cmd = "/fish"

\* C5 as claimed: when the 2 most recent entries read after a cycle settled
\* contain a challenge with a code, the loop issues /verify with that code
\* and goes on to the buffer.
C5_TextChallengeInWindowVerified ==
  [][ (pc = "detect" /\ pc' # "detect"
         /\ \E t \in WindowIds : ExpectedChallenge[t] = "text")
      => /\ pc' = "buffer"
         /\ \E t \in WindowIds :
              /\ ExpectedChallenge[t] = "text"
              /\ sent' = Append(sent, [cmd |-> "/verify", params |-> ExpectedCode[t],
                                       settled |-> FALSE]) ]_vars

\* C5 as amended: when the first of the 2 most recent entries that is a
\* challenge has a code, the loop issues /verify with that entry's code,
\* waits the 1 s buffer without issuing anything, and only then goes on to
\* classify; it does not fail, and a normal result then read gives fish.
C5_FirstChallengeWithCodeVerified ==
  [][ /\ (pc = "detect" /\ pc' # "detect" /\ ExpectedChallenge[FirstChallenge] = "text")
         => /\ pc' = "buffer"
            /\ error' = "none"
            /\ sent' = Append(sent, [cmd |-> "/verify",
                                     params |-> ExpectedCode[FirstChallenge],
                                     settled |-> FALSE])
      /\ (pc = "buffer" /\ pc' # "buffer")
         => /\ pc' = "lastmsg"
            /\ now' = now + 1000
            /\ sent' = sent
      /\ (pc = "lastmsg" /\ pc' # "lastmsg" /\ lastMessage = "caught")
         => (pc' = "top" /\ nextAction' = "fish") ]_vars

\* /verify Q7W2 was issued for the challenge, the loop went on, and the
\* normal result it then read gave fish
C5_Witness ==
  /\ pc = "top"
  /\ running
  /\ nextAction = "fish"
  /\ Commands = <<"/fish", "/verify">>
  /\ sent[2].params = "Q7W2"
  /\ recent = <<"textcap", "caught">>

\* C6: a /fish that is not the first command is issued only when at least
\* the cooldown has passed since the response time, which is then set; the
\* gate does not suspend when the response time is unset, suspends for
\* exactly the cooldown minus the elapsed time when that is positive, and
\* does not suspend otherwise.
C6_CooldownGate ==
  [][ /\ (pc = "gate" /\ pc' # "gate" /\ nextAction = "fish")
         => LET elapsed == now - lastFishResponseTime
            IN /\ lastFishResponseTime = 0 => now' = now
               /\ (lastFishResponseTime # 0 /\ config.cooldown - elapsed > 0)
                  => now' - now = config.cooldown - elapsed
               /\ (lastFishResponseTime # 0 /\ config.cooldown - elapsed <= 0)
                  => now' = now
      /\ (pc = "exec" /\ pc' # "exec" /\ nextAction = "fish" /\ sent # << >>)
         => /\ lastFishResponseTime # 0
            /\ now >= lastFishResponseTime + config.cooldown ]_vars

\* cooldown 2.7 s, 1.0 s elapsed: the gate has suspended for 1.7 s
C6_Witness ==
  /\ pc = "exec"
  /\ nextAction = "fish"
  /\ config.cooldown = 2700
  /\ remaining = 1700
  /\ now - lastFishResponseTime = 2700

\* C7: from the top of a cycle whose action is sell or buy to the issue of
\* its command no time passes, whatever the response time.
C7_CorrectiveActionsNotGated ==
  [][ (pc \in {"top", "gate", "exec"} /\ nextAction \in {"sell", "buy"})
      => now' = now ]_vars

\* /sell was issued at once although the response time was set less than a
\* cooldown ago
C7_Witness ==
  /\ pc = "settle"
  /\ nextAction = "sell"
  /\ Last(sent).cmd = "/sell"
  /\ startTime = now
  /\ lastFishResponseTime # 0
  /\ now - lastFishResponseTime < config.cooldown

\* C8: the response time changes only in a cycle whose action is fish, after
\* the settle detector has returned for its /fish, and then to the time of
\* that step.
C8_ResponseTimeOnlyAfterFishSettled ==
  [][ lastFishResponseTime' # lastFishResponseTime
      => /\ nextAction = "fish"
         /\ pc = "render"
         /\ Last(sent) = [cmd |-> "/fish", params |-> "", settled |-> TRUE]
         /\ lastFishResponseTime' = now' ]_vars

\* a sell cycle and a /verify have passed and the response time is still the
\* one of the /fish cycle
C8_Witness ==
  /\ Commands = <<"/fish", "/verify", "/sell">>
  /\ pc = "detect"
  /\ lastFishResponseTime # 0
  /\ lastFishResponseTime < now

\* C9: the next action is always fish, sell or buy, and the loop never fails
\* on an unknown action.
C9_ActionEnumerated ==
  /\ nextAction \in {"fish", "sell", "buy"}
  /\ error # "unknown action"

C9_Witness ==
  /\ pc = "top"
  /\ {"/fish", "/sell", "/buy"} \subseteq {sent[i].cmd : i \in 1..Len(sent)}

\* the longest time the next step of the loop can take
LongestStep ==
  CASE pc = "gate" -> IF nextAction = "fish" THEN config.cooldown ELSE 0
    [] pc = "settle" -> 100
    [] pc = "render" -> 300
    [] pc = "buffer" -> 1000
    [] pc = "lastmsg" -> 100
    [] OTHER -> 0

\* a step of the loop itself
LoopStep ==
  \/ LoopTest
  \/ WaitForCooldown
  \/ ExecuteAction
  \/ WaitForMessagesSettled
  \/ RecordResponseTime
  \/ HandleCaptcha
  \/ VerifyBuffer
  \/ DetermineNextAction

\* C10: stop() changes nothing of a cycle in flight; the loop leaves only at
\* the top of a cycle, with running false; with running false at the top no
\* cycle starts; once left it issues nothing; and within the time bound a
\* stopped loop in the middle of a cycle can always take its next step.
C10_StopIsCooperative ==
  /\ [][ /\ (running /\ ~running') => (pc' = pc /\ sent' = sent /\ nextAction' = nextAction)
         /\ (pc # "done" /\ pc' = "done") => (pc = "top" /\ ~running)
         /\ (pc = "top" /\ ~running /\ pc' # "top") => pc' = "done"
         /\ pc = "done" => (pc' = "done" /\ sent' = sent) ]_vars
  /\ [](( /\ ~running
          /\ pc \in MidCycle
          /\ now + LongestStep <= horizon.time ) => ENABLED LoopStep)

\* the loop was stopped during a cycle and the cycle has gone on: its
\* command has settled and its response is being classified
C10_Witness ==
  /\ ~running
  /\ pc = "lastmsg"
  /\ sent # << >>
  /\ sent[ActionIndex].settled

\* The phrases each text holds, whatever their case, written out by hand.
Depletion == {"ranout", "shout", "soldout", "baitout"}
Liquidation == {"sold", "soldout", "bothconf"}
Replenishment == {"bought", "baitp", "baitout", "bothconf"}

\* C11: the next action is decided on the most recent entry alone, whatever
\* the entry before it, by the first of these that applies, letters compared
\* without their case: a depletion phrase gives sell, also when the entry
\* holds a liquidation or a replenishment phrase as well; else a liquidation
\* phrase gives buy, also when the entry holds a replenishment phrase; else
\* fish.
C11_PriorityOnLatestEntry ==
  [][ (pc = "lastmsg" /\ pc' = "top")
      => nextAction' = IF lastMessage \in Depletion THEN "sell"
                       ELSE IF lastMessage \in Liquidation THEN "buy"
                       ELSE "fish" ]_vars

\* sell was chosen on an entry holding a liquidation and a depletion phrase,
\* which came after an entry holding both confirmation phrases
C11_Witness ==
  /\ pc = "top"
  /\ nextAction = "sell"
  /\ recent = <<"bothconf", "soldout">>
  /\ Commands = <<"/fish">>
  /\ sent[1].settled

\* C12: detection on the 2 most recent entries gives none exactly when
\* neither holds the marker; otherwise it gives, for the first of them that
\* holds the marker, a text challenge with the code that follows 'Code:' in
\* that entry, or an image challenge without a code when no code follows;
\* a code is given exactly with a text challenge.  The loop acts on it: none
\* issues nothing and goes on, a text challenge issues /verify with the
\* code, an image challenge fails the loop.
C12_DetectionFromMarkedEntry ==
  /\ [](LET c == detectCaptcha(getLastMessages(2))
        IN /\ c.type = ExpectedChallenge[FirstChallenge]
           /\ c.answer = ExpectedCode[FirstChallenge]
           /\ (c.type = "none") <=> (\A t \in WindowIds : ExpectedChallenge[t] = "none")
           /\ (c.answer # "") <=> (c.type = "text"))
  /\ [][ (pc = "detect" /\ pc' # "detect")
         => LET kind == ExpectedChallenge[FirstChallenge]
            IN /\ kind = "none" => (pc' = "lastmsg" /\ sent' = sent)
               /\ kind = "text"
                  => sent' = Append(sent, [cmd |-> "/verify",
                                           params |-> ExpectedCode[FirstChallenge],
                                           settled |-> FALSE])
               /\ kind = "image" => (pc' = "failed" /\ sent' = sent) ]_vars

\* the code AB12 was taken from 'Code:AB12 now' in the older of the two
\* entries, the newer one holding no marker
C12_Witness ==
  /\ pc = "buffer"
  /\ recent = <<"codecap", "other">>
  /\ Last(sent) = [cmd |-> "/verify", params |-> "AB12", settled |-> FALSE]

\* C13: when the most recent entry is a challenge and the entry before it
\* holds a depletion or a confirmation phrase, the cycle, having answered
\* the challenge, chooses the next action that the entry before it calls
\* for (sell on a depletion).
C13_ActionFromEntryBehindChallenge ==
  [][ ( /\ pc = "lastmsg"
        /\ pc' = "top"
        /\ Last(sent).cmd = "/verify"
        /\ Len(recent) = 2
        /\ ExpectedChallenge[recent[2]] # "none"
        /\ recent[1] \in Depletion \cup Liquidation \cup Replenishment )
      => nextAction' = ExpectedNext[recent[1]] ]_vars

\* C14: a cycle during which no entry arrives raises no error and chooses
\* fish, whatever the entry that was the most recent before its command.
\* Stated for the cycles the state tells to be such: the action of the cycle
\* is sell or buy, which an earlier cycle chose on reading an entry, and the
\* timeline still has that one entry when the cycle ends.
C14_NoNewEntryGivesPrimary ==
  [][ (pc = "lastmsg" /\ pc' = "top" /\ total = 1 /\ nextAction \in {"sell", "buy"})
      => (nextAction' = "fish" /\ error' = "none") ]_vars

\* the settle window of each copy of the class, written out by hand
ExpectedWindow == IF config.version = 1 THEN 300 ELSE 500

\* what the detector holds while it runs: the count it has seen, never more
\* than the timeline has, and the time it last saw the count grow, its
\* start at first; each of its polls takes in the count of that moment and,
\* exactly when that is growth, restarts the quiet time
DetectorTracksGrowth ==
  /\ [](pc = "settle"
        => (lastCount <= total /\ startTime <= lastChangeTime /\ lastChangeTime <= now))
  /\ [][ (pc = "settle" /\ pc' = "settle" /\ now' # now)
         => /\ lastCount' = total
            /\ lastChangeTime' = IF total > lastCount THEN now' ELSE lastChangeTime ]_vars

\* C15 as claimed: whenever the settle detector returns, the count has not
\* grown for a full settle window (300 ms, 500 ms in the second copy).
C15_ReturnsOnlyAfterQuietWindow ==
  [][ (pc = "settle" /\ pc' = "render")
      => (total = lastCount /\ now' - lastChangeTime >= ExpectedWindow) ]_vars

\* C15 as amended: whenever the settle detector returns before 5 s have
\* passed since its start, the count has not grown for a full settle window,
\* however early or often it grew before; after 5 s it returns without one.
C15_QuietWindowOrHardTimeout ==
  /\ DetectorTracksGrowth
  /\ [][ (pc = "settle" /\ pc' = "render")
         => \/ total = lastCount /\ now' - lastChangeTime >= ExpectedWindow
            \/ now - startTime >= 5000 /\ now' = now ]_vars

\* first copy: the count grew by one entry within the first 100 ms and the
\* detector returned 300 ms after that poll, not 300 ms after its start
C15_Witness ==
  /\ config.version = 1
  /\ pc = "render"
  /\ Commands = <<"/fish">>
  /\ sent[1].settled
  /\ total = 1
  /\ now = 400

\* the detector leaving its loop
SettleReturns == WaitForMessagesSettled /\ pc' = "render"

\* C16: the settle detector never runs for more than 5 s: each of its turns
\* takes 100 ms or returns, it can always take its turn, after 5 s its turn
\* is to return, whether or not the count has stopped growing; it returns
\* without an error and the cycle can go on to detection, which leads to
\* classification, to /verify or to the failure on an image challenge.
C16_SettleDetectorTerminates ==
  /\ [](pc = "settle" => now - startTime <= 5000)
  /\ []((pc = "settle" /\ now + 100 <= horizon.time) => ENABLED WaitForMessagesSettled)
  /\ []((pc = "settle" /\ now - startTime >= 5000) => ENABLED SettleReturns)
  /\ []((pc = "render" /\ now + 300 <= horizon.time) => ENABLED RecordResponseTime)
  /\ [](pc = "detect" => ENABLED HandleCaptcha)
  /\ [][ /\ (pc = "settle" /\ now' # now) => now' = now + 100
         /\ (pc = "settle" /\ pc' = "settle") => startTime' = startTime
         /\ (pc = "settle" /\ pc' # "settle") => (pc' = "render" /\ error' = "none")
         /\ (pc = "render" /\ pc' # "render") => (pc' = "detect" /\ error' = "none")
         /\ (pc = "detect" /\ pc' # "detect") => pc' \in {"lastmsg", "buffer", "failed"}
       ]_vars

\* 5 s after its start the detector has not seen a quiet window: the count
\* grew less than a settle window ago
C16_Witness ==
  /\ pc = "settle"
  /\ now - startTime = 5000
  /\ now - lastChangeTime < ExpectedWindow
  /\ total > lastCount

\* the action commands issued so far, one per cycle, in order
ActionCommands == SelectSeq(Commands, LAMBDA c : c # "/verify")

\* C17: /sell is issued only in the cycle right after a /fish cycle, and
\* /buy only in the cycle right after a /sell cycle.
C17_ThreeStateCycle ==
  \A i \in 1..Len(ActionCommands) :
    /\ ActionCommands[i] = "/sell" => (i > 1 /\ ActionCommands[i - 1] = "/fish")
    /\ ActionCommands[i] = "/buy" => (i > 1 /\ ActionCommands[i - 1] = "/sell")

\* the place of each step in a cycle
CycleRank ==
  [ gate |-> 1, exec |-> 2, settle |-> 3, render |-> 4, detect |-> 5, buffer |-> 6,
    lastmsg |-> 7 ]

\* getLastMessage leaving its loop with the next action assigned
ResponseRead == DetermineNextAction /\ pc' = "top"

\* C18: a text that is not recognised does not hold the loop.  The wait
\* for a text that looks like a response never lasts more than 3 s: each
\* turn of it takes 100 ms or ends it, and after 3 s the turn ends it.  A
\* cycle only moves forward through its steps, each of which can be taken
\* within the observed span, and leaves them for the top of the loop, the
\* next action being fish, sell or buy, or else by the failure on an image
\* challenge.  When the most recent entry holds none of the depletion,
\* liquidation and replenishment phrases, or there is no entry, the action
\* chosen is fish and nothing is thrown.
C18_UnrecognisedTextDoesNotBlock ==
  /\ [](pc = "lastmsg" => (pollStart <= now /\ now - pollStart <= 3000))
  /\ []((pc = "lastmsg" /\ now - pollStart >= 3000) => ENABLED ResponseRead)
  /\ []((pc \in MidCycle /\ now + LongestStep <= horizon.time) => ENABLED LoopStep)
  /\ [](pc = "failed" => error = "image captcha")
  /\ [][ /\ (pc = "lastmsg" /\ now' # now) => (now' = now + 100 /\ pollStart' = pollStart)
         /\ (pc \in MidCycle /\ pc' # pc)
            => \/ pc' \in MidCycle /\ CycleRank[pc'] > CycleRank[pc]
               \/ pc = "lastmsg" /\ pc' = "top"
               \/ pc = "detect" /\ pc' = "failed"
         /\ (pc = "lastmsg" /\ pc' # "lastmsg")
            => /\ nextAction' \in {"fish", "sell", "buy"}
               /\ error' = "none"
               /\ lastMessage \notin Depletion \cup Liquidation \cup Replenishment
                  => nextAction' = "fish" ]_vars

\* the only entry reads 'hello': the first cycle waited the whole 3 s for a
\* response and then chose fish
C18_Witness ==
  /\ pc = "top"
  /\ recent = <<"other">>
  /\ Commands = <<"/fish">>
  /\ now = 3600
  /\ nextAction = "fish"
  /\ error = "none"

\* C19: a call of the page that fails during a cycle ends the loop with
\* that error: the failing step changes neither the next action nor the
\* response time nor running, the loop is then not running a cycle any more
\* (an error is only ever held by the failed loop), and the failed loop
\* stays failed with its error and issues no command, the failed one not
\* again either, and changes neither the next action nor the response time.
C19_TransportFailurePropagates ==
  /\ [](error # "none" => pc = "failed")
  /\ [][ /\ (error = "none" /\ error' = "transport")
            => /\ pc' = "failed"
               /\ nextAction' = nextAction
               /\ lastFishResponseTime' = lastFishResponseTime
               /\ running' = running
         /\ pc = "failed"
            => /\ pc' = "failed"
               /\ error' = error
               /\ sent' = sent
               /\ nextAction' = nextAction
               /\ lastFishResponseTime' = lastFishResponseTime ]_vars

\* the count failed while the loop waited for the answer to /sell all: the
\* loop has ended, /sell all is its last command and sell is still the action
C19_Witness ==
  /\ pc = "failed"
  /\ error = "transport"
  /\ Commands = <<"/fish", "/sell">>
  /\ ~sent[2].settled
  /\ nextAction = "sell"
  /\ lastFishResponseTime # 0

\* C20: a cycle issues its action command once, at its one step that sends
\* it, and the command is the one of the action the cycle started with
\* (/fish, /sell all, /buy <bait> 50), which the cycle does not change
\* before its end; the only other command is /verify, issued at most once a
\* cycle, at the step after the action command has settled, so that in the
\* sequence of commands every /verify stands right after a settled action
\* command and never after another /verify.
C20_OneActionCommandPerCycle ==
  /\ [](\A i \in 1..Len(sent) :
         /\ sent[i].cmd \in {"/fish", "/sell", "/buy", "/verify"}
         /\ sent[i].cmd = "/verify"
            => (i > 1 /\ sent[i - 1].cmd # "/verify" /\ sent[i - 1].settled))
  /\ [][ /\ (pc = "exec" /\ pc' # "exec")
            => (pc' = "settle" /\ sent' = Append(sent, ExpectedCommand(nextAction)))
         /\ (pc = "detect" /\ pc' # "detect")
            => \/ Len(sent') = Len(sent)
               \/ /\ pc' = "buffer"
                  /\ Len(sent') = Len(sent) + 1
                  /\ Last(sent').cmd = "/verify"
                  /\ SubSeq(sent', 1, Len(sent)) = sent
         /\ pc \notin {"exec", "detect"} => Len(sent') = Len(sent)
         /\ (pc \in MidCycle /\ pc' # pc)
            => \/ pc' \in MidCycle /\ CycleRank[pc'] > CycleRank[pc]
               \/ pc' \in {"top", "failed"}
         /\ pc \in MidCycle \ {"lastmsg"} => nextAction' = nextAction
         /\ (pc = "top" /\ pc' # "top") => (pc' \in {"gate", "done"} /\ nextAction' = nextAction)
       ]_vars

\* two cycles have ended, each with its action command and one /verify
C20_Witness ==
  /\ pc = "top"
  /\ Commands = <<"/fish", "/verify", "/sell", "/verify">>
  /\ sent[1].settled
  /\ sent[3].settled

\* the /verify commands issued so far that carry the given code
Answers(code) == {i \in 1..Len(sent) : sent[i].cmd = "/verify" /\ sent[i].params = code}

\* C21 as claimed: in every cycle whose 2 most recent entries, read after
\* settling, hold a challenge with a code, /verify is issued, whatever was
\* answered before.
C21_VerifyWheneverCodeInWindow ==
  [][ (pc = "detect" /\ pc' # "detect"
         /\ \E t \in WindowIds : ExpectedChallenge[t] = "text")
      => (Len(sent') = Len(sent) + 1 /\ Last(sent').cmd = "/verify") ]_vars

\* C21 as amended: in every cycle in which the first of the 2 most recent
\* entries that holds the marker has a code, /verify is issued with that
\* code, also when /verify with that code was issued in an earlier cycle:
\* what the step does is decided by the two entries alone, so an entry that
\* stays among them is answered once a cycle.
C21_VerifyEveryCycleNoMemory ==
  [][ (pc = "detect" /\ pc' # "detect" /\ ExpectedChallenge[FirstChallenge] = "text")
      => /\ Len(sent') = Len(sent) + 1
         /\ Last(sent').cmd = "/verify"
         /\ Answers(ExpectedCode[FirstChallenge])'
              = Answers(ExpectedCode[FirstChallenge]) \cup {Len(sent) + 1} ]_vars

\* the one challenge of the timeline has been answered in the /fish cycle
\* and again, with the same code, in the /sell cycle
C21_Witness ==
  /\ total = 2
  /\ recent = <<"textcap", "ranout">>
  /\ Commands = <<"/fish", "/verify", "/sell", "/verify">>
  /\ Answers("Q7W2") = {2, 4}

====
